---------------------------- MODULE Spec2Model ----------------------------
(***************************************************************************)
(* Relay circuit simulator (relays.py): the signal resolver                *)
(* propagate_signals, the instability detector get_unstable_relays, the    *)
(* transition model get_relay_transitions / transition_relay, the          *)
(* explorer explore_all_sequences and the aggregator wait_for_stable.      *)
(*                                                                         *)
(* Every function of the program is pure, so each is an operator computed  *)
(* the way the code computes it, and the specifications draw the call's    *)
(* arguments in Init and apply the function in one action per call.        *)
(* Python dicts are TLA+ functions whose DOMAIN is the set of keys; the    *)
(* relay-state dict is keyed by relay.name, as in the code.                *)
(***************************************************************************)
EXTENDS Integers, Sequences, FiniteSets, TLC

VARIABLES
    relays,             \* argument: the topology, a sequence of Relay records
    relay_states,       \* argument: dict name -> RelayPosition
    fixed_wires,        \* argument: dict wire -> WireState (inputs, rails)
    wire_states,        \* argument of the detector: dict wire -> WireState
    max_depth,          \* argument of the explorer
    output_wires,       \* argument of wait_for_stable: a sequence of wires
    target,             \* index in relays of the relay a targeted call names
    new_position,       \* argument of transition_relay
    pc,                 \* "ready", or the name of the function that returned
    ret_relay_states,   \* transition_relay: first component of the result
    ret_wire_states,    \* propagate_signals / transition_relay: wire result
    unstable,           \* get_unstable_relays: the returned set of names
    transitions,        \* get_relay_transitions: the returned positions
    paths,              \* explore_all_sequences / simulate: returned paths
    all_stable,         \* wait_for_stable: first component of the result
    stable_outputs      \* wait_for_stable: second component of the result

vars == <<relays, relay_states, fixed_wires, wire_states, max_depth,
          output_wires, target, new_position, pc, ret_relay_states,
          ret_wire_states, unstable, transitions, paths, all_stable,
          stable_outputs>>

---------------------------------------------------------------------------
(* Values.                                                                 *)

\* WireState members (relays.py 11-19).
LOW == "LOW"
HIGH == "HIGH"
FLOATING == "FLOATING"
\* The member the tests import and relays.py does not define.
SHORT_CIRCUIT == "SHORT_CIRCUIT"

\* RelayPosition members (relays.py 33-36).
OFF == "OFF"
SWITCHING == "SWITCHING"
ON == "ON"
RelayPosition == {OFF, SWITCHING, ON}

\* Python's None (Relay.nc default, an unset pin).
None == "None"

\* The dataclass Relay (relays.py 22-30).
Relay(name, coil_a, coil_b, comm, no, nc) ==
    [name |-> name, coil_a |-> coil_a, coil_b |-> coil_b,
     comm |-> comm, no |-> no, nc |-> nc]

\* The empty dict.
EmptyDict == <<>>

\* dict.get(key, default)
Get(d, key, default) == IF key \in DOMAIN d THEN d[key] ELSE default

\* {**d, key: value}
Updated(d, key, value) ==
    [k \in DOMAIN d \cup {key} |-> IF k = key THEN value ELSE d[k]]

\* Truthiness of a pin: `if relay.no`, `if relay.nc`.
Truthy(pin) == pin # None

---------------------------------------------------------------------------
(* propagate_signals (relays.py 42-130).                                   *)

\* BuildConnections treating a SWITCHING relay like an ON one.
RECURSIVE BuildConnectionsSwitchingCloses(_, _, _)
BuildConnectionsSwitchingCloses(rls, rs, i) ==
    IF i > Len(rls) THEN <<>>
    ELSE LET relay == rls[i]
             pos == Get(rs, relay.name, OFF)
             own == IF pos # OFF /\ Truthy(relay.no)
                       THEN <<{relay.comm, relay.no}>>
                    ELSE IF pos = OFF /\ Truthy(relay.nc)
                       THEN <<{relay.comm, relay.nc}>>
                    ELSE <<>>
         IN  own \o BuildConnectionsSwitchingCloses(rls, rs, i + 1)

\* Lines 57-66: the connection each relay contributes, in relay order.
RECURSIVE BuildConnections(_, _, _)
BuildConnections(rls, rs, i) ==
    IF i > Len(rls) THEN <<>>
    ELSE LET relay == rls[i]
             pos == Get(rs, relay.name, OFF)
             own == IF pos = ON /\ Truthy(relay.no)
                       THEN <<{relay.comm, relay.no}>>
                    ELSE IF pos = OFF /\ Truthy(relay.nc)
                       THEN <<{relay.comm, relay.nc}>>
                    ELSE <<>>
         IN  own \o BuildConnections(rls, rs, i + 1)

\* Lines 72-88: one pass of the merge loop from index i on.  Group i, unless
\* already used, absorbs every unused group that shares a wire with it.
RECURSIVE MergePass(_, _, _, _, _)
MergePass(connections, i, used, new_connections, merged) ==
    IF i > Len(connections)
    THEN [connections |-> new_connections, merged |-> merged]
    ELSE IF i \in used
    THEN MergePass(connections, i + 1, used, new_connections, merged)
    ELSE LET group1 == connections[i]
             J == {j \in 1..Len(connections) :
                     /\ j # i
                     /\ j \notin used
                     /\ group1 \cap connections[j] # {}}
             merged_group == group1 \cup UNION {connections[j] : j \in J}
         IN  MergePass(connections, i + 1, used \cup J \cup {i},
                       Append(new_connections, merged_group),
                       merged \/ J # {})

\* MergeGroups stopping after its first pass.
MergeGroupsOnePass(connections) ==
    MergePass(connections, 1, {}, <<>>, FALSE).connections

\* Lines 69-90: repeat the pass until one merges nothing.
RECURSIVE MergeGroups(_)
MergeGroups(connections) ==
    LET pass == MergePass(connections, 1, {}, <<>>, FALSE)
    IN  IF pass.merged THEN MergeGroups(pass.connections)
        ELSE pass.connections

\* The connection groups the resolver works on (lines 54-90).
ConnectionGroups(rls, rs) == MergeGroups(BuildConnections(rls, rs, 1))

\* Lines 95-100: the defined values found in a group.
GroupValues(group, wires, fixed) ==
    {fixed[w] : w \in group \cap DOMAIN fixed}
    \cup {wires[w] : w \in {x \in group \ DOMAIN fixed :
                              x \in DOMAIN wires /\ wires[x] # FLOATING}}

\* SetGroup without the test `if wire not in fixed_wires`.
SetGroupAlsoFixed(wires, group, fixed, value) ==
    [w \in DOMAIN wires \cup group |-> IF w \in group THEN value ELSE wires[w]]

\* Lines 107-109 and 113-115: write value to every non-fixed wire of group.
SetGroup(wires, group, fixed, value) ==
    [w \in DOMAIN wires \cup (group \ DOMAIN fixed) |->
        IF w \in group \ DOMAIN fixed THEN value ELSE wires[w]]

\* ResolveGroup without the else branch of lines 110-115.
ResolveGroupConflictOnly(wires, group, fixed) ==
    LET values == GroupValues(group, wires, fixed)
    IN  IF Cardinality(values) > 1
        THEN SetGroup(wires, group, fixed, FLOATING)
        ELSE wires

\* Lines 102-115: what one group does to the wires.
ResolveGroup(wires, group, fixed) ==
    LET values == GroupValues(group, wires, fixed)
    IN  IF values = {} THEN wires
        ELSE IF Cardinality(values) > 1
        THEN SetGroup(wires, group, fixed, FLOATING)
        ELSE SetGroup(wires, group, fixed, CHOOSE v \in values : TRUE)

\* Lines 93-115: the groups in list order.
RECURSIVE PropagateGroups(_, _, _, _)
PropagateGroups(groups, k, wires, fixed) ==
    IF k > Len(groups) THEN wires
    ELSE PropagateGroups(groups, k + 1,
                         ResolveGroup(wires, groups[k], fixed), fixed)

\* AllWires without the coil wires of line 120.
AllWiresContactsOnly(rls) ==
    UNION {{rls[i].comm}
           \cup (IF Truthy(rls[i].no) THEN {rls[i].no} ELSE {})
           \cup (IF Truthy(rls[i].nc) THEN {rls[i].nc} ELSE {})
           : i \in 1..Len(rls)}

\* Lines 118-124: every wire a relay names.
AllWires(rls) ==
    UNION {{rls[i].coil_a, rls[i].coil_b, rls[i].comm}
           \cup (IF Truthy(rls[i].no) THEN {rls[i].no} ELSE {})
           \cup (IF Truthy(rls[i].nc) THEN {rls[i].nc} ELSE {})
           : i \in 1..Len(rls)}

\* Lines 126-128: wires not yet in the dict become FLOATING.
FillFloating(wires, all_wires) ==
    [w \in DOMAIN wires \cup all_wires |->
        IF w \in DOMAIN wires THEN wires[w] ELSE FLOATING]

propagate_signals(rls, rs, fixed) ==
    FillFloating(PropagateGroups(ConnectionGroups(rls, rs), 1, fixed, fixed),
                 AllWires(rls))

---------------------------------------------------------------------------
(* get_unstable_relays (relays.py 132-159).                                *)

\* Lines 142-146 (and 179-181): the coil of a relay under wire_states.
coil_energized(relay, ws) ==
    /\ Get(ws, relay.coil_a, FLOATING) = HIGH
    /\ Get(ws, relay.coil_b, FLOATING) = LOW

\* NeedsChange without the coil test of its first branch.
NeedsChangeUnlessOn(relay, rs, ws) ==
    LET current_pos == Get(rs, relay.name, OFF)
    IN  IF current_pos # ON THEN TRUE
        ELSE ~coil_energized(relay, ws)

\* Lines 148-157: whether the loop body adds relay.name.
NeedsChange(relay, rs, ws) ==
    LET current_pos == Get(rs, relay.name, OFF)
    IN  IF coil_energized(relay, ws) /\ current_pos # ON THEN TRUE
        ELSE IF ~coil_energized(relay, ws) /\ current_pos # OFF THEN TRUE
        ELSE current_pos = SWITCHING

get_unstable_relays(rls, rs, ws) ==
    {rls[i].name : i \in {k \in 1..Len(rls) : NeedsChange(rls[k], rs, ws)}}

---------------------------------------------------------------------------
(* get_relay_transitions and transition_relay (relays.py 161-215).         *)

\* Line 172: the first relay of the list with the name, 0 when there is none.
FindRelay(relay_name, rls) ==
    LET hits == {i \in 1..Len(rls) : rls[i].name = relay_name}
    IN  IF hits = {} THEN 0
        ELSE CHOOSE i \in hits : \A j \in hits : i <= j

\* RelayTransitions going straight to the position the coil asks for.
RelayTransitionsDirect(relay, rs, ws) ==
    LET current_pos == Get(rs, relay.name, OFF)
    IN  IF coil_energized(relay, ws)
        THEN (IF current_pos = ON THEN {} ELSE {ON})
        ELSE (IF current_pos = OFF THEN {} ELSE {OFF})

\* RelayTransitions completing every switch to OFF, whatever the coil.
RelayTransitionsReleaseOnly(relay, rs, ws) ==
    LET current_pos == Get(rs, relay.name, OFF)
    IN  IF current_pos = OFF
        THEN (IF coil_energized(relay, ws) THEN {SWITCHING} ELSE {})
        ELSE IF current_pos = ON
        THEN (IF ~coil_energized(relay, ws) THEN {SWITCHING} ELSE {})
        ELSE {OFF}

\* RelayTransitions keeping a switching relay in SWITCHING.
RelayTransitionsLinger(relay, rs, ws) ==
    LET current_pos == Get(rs, relay.name, OFF)
    IN  IF current_pos = OFF
        THEN (IF coil_energized(relay, ws) THEN {SWITCHING} ELSE {})
        ELSE IF current_pos = ON
        THEN (IF ~coil_energized(relay, ws) THEN {SWITCHING} ELSE {})
        ELSE {SWITCHING}

\* Lines 176-203: the transition table of the relay found, the returned list
\* as the set of its elements.
RelayTransitions(relay, rs, ws) ==
    LET current_pos == Get(rs, relay.name, OFF)
    IN  IF current_pos = OFF
        THEN (IF coil_energized(relay, ws) THEN {SWITCHING} ELSE {})
        ELSE IF current_pos = ON
        THEN (IF ~coil_energized(relay, ws) THEN {SWITCHING} ELSE {})
        ELSE IF current_pos = SWITCHING
        THEN (IF coil_energized(relay, ws) THEN {ON} ELSE {OFF})
        ELSE {}

\* Lines 171-174, then the table.
get_relay_transitions(relay_name, rls, rs, ws) ==
    LET idx == FindRelay(relay_name, rls)
    IN  IF idx = 0 THEN {} ELSE RelayTransitions(rls[idx], rs, ws)

\* Lines 213-215.
transition_relay(relay_name, position, rls, rs, fixed) ==
    LET new_relay_states == Updated(rs, relay_name, position)
    IN  [relay_states |-> new_relay_states,
         wire_states |-> propagate_signals(rls, new_relay_states, fixed)]

---------------------------------------------------------------------------
(* explore_all_sequences, simulate, wait_for_stable (relays.py 217-298).   *)

\* Line 221 (and 272): the default of max_depth.
DefaultMaxDepth == 100

\* state_key made of the names only, without the positions.
state_key_names(rs) == DOMAIN rs

\* Line 238: str(sorted(relay_states.items())).  The string lists exactly
\* the (name, position) items of the dict, so it is modelled by their set:
\* two dicts have the same key iff they hold the same items.
state_key(rs) == {<<name, rs[name]>> : name \in DOMAIN rs}

\* Line 235: a snapshot (relay_states, wire_states).
Snapshot(rs, ws) == [relay_states |-> rs, wire_states |-> ws]

\* explore_all_sequences recording in every snapshot the wires of the default
\* (empty) relay-state mapping instead of those of the snapshot's own.
RECURSIVE explore_stale_wires(_, _, _, _, _)
explore_stale_wires(rls, fixed, initial_relay_states, depth, visited) ==
    LET ws == propagate_signals(rls, initial_relay_states, fixed)
        current_state == Snapshot(initial_relay_states,
                                  propagate_signals(rls, EmptyDict, fixed))
        key == state_key(initial_relay_states)
    IN  IF key \in visited \/ depth <= 0 THEN {<<current_state>>}
        ELSE LET names == get_unstable_relays(rls, initial_relay_states, ws)
             IN  IF names = {} THEN {<<current_state>>}
                 ELSE UNION {UNION {
                        {<<current_state>> \o path :
                            path \in explore_stale_wires(
                                rls, fixed,
                                transition_relay(relay_name, position, rls,
                                    initial_relay_states, fixed).relay_states,
                                depth - 1, visited \cup {key})}
                        : position \in get_relay_transitions(
                              relay_name, rls, initial_relay_states, ws)}
                        : relay_name \in names}

\* explore_all_sequences giving up one step late (depth < 0).
RECURSIVE explore_one_deeper(_, _, _, _, _)
explore_one_deeper(rls, fixed, initial_relay_states, depth, visited) ==
    LET ws == propagate_signals(rls, initial_relay_states, fixed)
        current_state == Snapshot(initial_relay_states, ws)
        key == state_key(initial_relay_states)
    IN  IF key \in visited \/ depth < 0 THEN {<<current_state>>}
        ELSE LET names == get_unstable_relays(rls, initial_relay_states, ws)
             IN  IF names = {} THEN {<<current_state>>}
                 ELSE UNION {UNION {
                        {<<current_state>> \o path :
                            path \in explore_one_deeper(
                                rls, fixed,
                                transition_relay(relay_name, position, rls,
                                    initial_relay_states, fixed).relay_states,
                                depth - 1, visited \cup {key})}
                        : position \in get_relay_transitions(
                              relay_name, rls, initial_relay_states, ws)}
                        : relay_name \in names}

\* Lines 233-267.  The returned list of paths is modelled as the set of its
\* elements (the list's order is the iteration order of the set `unstable`;
\* distinct branches commit distinct dict updates, so it has no duplicates).
RECURSIVE explore_all_sequences(_, _, _, _, _)
explore_all_sequences(rls, fixed, initial_relay_states, depth, visited) ==
    LET ws == propagate_signals(rls, initial_relay_states, fixed)
        current_state == Snapshot(initial_relay_states, ws)
        key == state_key(initial_relay_states)
    IN  IF key \in visited \/ depth <= 0 THEN {<<current_state>>}
        ELSE LET names == get_unstable_relays(rls, initial_relay_states, ws)
             IN  IF names = {} THEN {<<current_state>>}
                 ELSE UNION {UNION {
                        {<<current_state>> \o path :
                            path \in explore_all_sequences(
                                rls, fixed,
                                transition_relay(relay_name, position, rls,
                                    initial_relay_states, fixed).relay_states,
                                depth - 1, visited \cup {key})}
                        : position \in get_relay_transitions(
                              relay_name, rls, initial_relay_states, ws)}
                        : relay_name \in names}

\* Lines 269-275: initial_relay_states=None becomes {} (lines 228-231).
simulate(rls, inputs, depth) ==
    explore_all_sequences(rls, inputs, EmptyDict, depth, {})

\* Line 293: the tuple of (wire, value) pairs of the requested outputs.
OutputVals(final_wire_states, outs) ==
    [k \in 1..Len(outs) |-> <<outs[k], Get(final_wire_states, outs[k], FLOATING)>>]

\* EndsUnstable looking at the first snapshot of the path.
EndsUnstableFirst(rls, path) ==
    get_unstable_relays(rls, path[1].relay_states, path[1].wire_states) # {}

\* Line 291: whether a path's last snapshot still has unstable relays.
EndsUnstable(rls, path) ==
    get_unstable_relays(rls, path[Len(path)].relay_states,
                        path[Len(path)].wire_states) # {}

\* wait_for_stable recording the outputs of every path, stable or not.
wait_for_stable_every_path(rls, inputs, outs) ==
    LET all_paths == simulate(rls, inputs, DefaultMaxDepth)
    IN  [all_stable |-> \A path \in all_paths : ~EndsUnstable(rls, path),
         stable_outputs |->
            {OutputVals(path[Len(path)].wire_states, outs) :
                path \in all_paths}]

\* Lines 283-298.
wait_for_stable(rls, inputs, outs) ==
    LET all_paths == simulate(rls, inputs, DefaultMaxDepth)
    IN  [all_stable |-> \A path \in all_paths : ~EndsUnstable(rls, path),
         stable_outputs |->
            {OutputVals(path[Len(path)].wire_states, outs) :
                path \in {p \in all_paths : ~EndsUnstable(rls, p)}}]

---------------------------------------------------------------------------
(* The example circuits of relays.py (lines 302-332).                      *)

inverter_circuit ==
    <<Relay("Inverter", "In", "GND", "Out", "GND", "VCC")>>

buffer_with_glitch ==
    <<Relay("Buffer", "In", "GND", "Out", "VCC", "GND")>>

race_condition_circuit ==
    <<Relay("Path1_High", "Trigger", "GND", "VCC", "Out", None),
      Relay("Path2_Low", "Trigger", "GND", "GND", "Out", None)>>

sr_latch ==
    <<Relay("S_relay", "S", "GND", "VCC", "Q", None),
      Relay("R_relay", "R", "GND", "VCC", "Q_bar", None),
      Relay("Q_hold", "Q", "GND", "VCC", "Q", None),
      Relay("Qbar_hold", "Q_bar", "GND", "VCC", "Q_bar", None)>>

\* The power rails every caller of the source passes (lines 342, 369, 395).
Rails == [w \in {"VCC", "GND"} |-> IF w = "VCC" THEN HIGH ELSE LOW]

---------------------------------------------------------------------------
(* Bounds and the sets the arguments are drawn from.                       *)

\* Longest generated topology.
MaxRelays == 2
\* Largest explicit max_depth handed to the explorer (besides the default).
MaxDepth == 3

\* Relay names of generated topologies; the first relay is always "K1", a
\* later one is "K1" again (a shared label) or "K2".
Names == {"K1", "K2"}

\* All dicts from a subset of keys to vals.
Dicts(keys, vals) == UNION {[D -> vals] : D \in SUBSET keys}

\* Sequences of 1..MaxRelays relays of pool whose first relay is named "K1".
Topologies(pool) ==
    {t \in UNION {[1..n -> pool] : n \in 1..MaxRelays} : t[1].name = "K1"}

NamesOf(rls) == {rls[i].name : i \in 1..Len(rls)}

\* Resolver arguments: contacts over three wires, two of them rails.
ResolverPool ==
    {Relay(n, "In", "GND", c, no, nc) :
        n \in Names, c \in {"Out", "VCC"}, no \in {"VCC", "GND", "Out"},
        nc \in {None, "GND"}}
ResolverFixed == Dicts({"VCC", "GND"}, {LOW, HIGH})

\* Three contacts in a row from VCC over Out and X to GND: the groups of the
\* two outer contacts are joined only through the middle one.
ChainCircuit ==
    <<Relay("K1", "In", "GND", "VCC", "Out", None),
      Relay("K2", "In", "GND", "Out", "X", None),
      Relay("K3", "In", "GND", "X", "GND", None)>>

\* The relay lists holding the relays of rls in every order.
Orderings(rls) ==
    {[i \in 1..Len(rls) |-> rls[f[i]]] : f \in Permutations(1..Len(rls))}

\* Detector arguments: the relay of the tests (test_relays.py 72, 98), and a
\* second one on the same or on another coil_a wire.
DetectorPool ==
    {Relay(n, a, "coil_b", "comm", "no", None) :
        n \in Names, a \in {"coil_a", "coil_c"}}
DetectorWires == Dicts({"coil_a", "coil_b", "coil_c"},
                       {LOW, HIGH, FLOATING, SHORT_CIRCUIT})

\* Explorer arguments: relays switching Out, driven by the input or by Out
\* itself (feedback), besides the example circuits.
ExplorerPool ==
    {Relay(n, a, "GND", "Out", no, nc) :
        n \in Names, a \in {"In", "Out"}, no \in {"VCC", "GND"},
        nc \in {None, "VCC", "GND"}}
ExplorerTopologies ==
    Topologies(ExplorerPool)
    \cup {inverter_circuit, buffer_with_glitch, race_condition_circuit, sr_latch}

\* The primary inputs of a topology: coil wires that no contact drives.
InputWires(rls) ==
    {rls[i].coil_a : i \in 1..Len(rls)}
    \ UNION {{rls[i].comm, rls[i].no, rls[i].nc} : i \in 1..Len(rls)}

\* The rails plus a value for every primary input.
ExplorerInputs(rls) ==
    {[w \in DOMAIN Rails \cup DOMAIN f |->
        IF w \in DOMAIN f THEN f[w] ELSE Rails[w]] :
        f \in [InputWires(rls) -> {LOW, HIGH}]}

Depths == 0..MaxDepth \cup {DefaultMaxDepth}

\* Relay-state dicts handed to a call: the empty default, or a position for
\* every name of the topology.
RelayStateDicts(rls) == {EmptyDict} \cup [NamesOf(rls) -> RelayPosition]

\* A relay name that no generated topology and no example circuit uses.
UnknownName == "K0"

\* The relay_name argument of a targeted call: the name of relay i of the
\* topology, or for i = 0 a name that no relay of the topology has.
NameArg(rls, i) == IF i = 0 THEN UnknownName ELSE rls[i].name

\* Output wires asked of a circuit: tuples whose first wire the circuit has.
OutputChoices(rls) ==
    {outs \in {<<"Out">>, <<"Out", "In">>, <<"Q", "Q_bar">>} :
        outs[1] \in AllWires(rls)}

---------------------------------------------------------------------------
(* Specifications: Init draws the arguments, one action per call.          *)

NoResult ==
    /\ pc = "ready"
    /\ target = 0
    /\ new_position = OFF
    /\ ret_relay_states = EmptyDict
    /\ ret_wire_states = EmptyDict
    /\ unstable = {}
    /\ transitions = {}
    /\ paths = {}
    /\ all_stable = TRUE
    /\ stable_outputs = {}

\* Propagate with line 52 as `wires = fixed_wires`: the resolver works on the
\* caller's dict, which then holds the result.
PropagateInPlace ==
    /\ pc = "ready"
    /\ pc' = "propagate_signals"
    /\ ret_wire_states' = propagate_signals(relays, relay_states, fixed_wires)
    /\ fixed_wires' = ret_wire_states'
    /\ UNCHANGED <<relays, relay_states, wire_states, max_depth,
                   output_wires, target, new_position, ret_relay_states,
                   unstable, transitions, paths, all_stable, stable_outputs>>

\* propagate_signals(relays, relay_states, fixed_wires); line 52 copies
\* fixed_wires, so the caller's dicts are left as they were.
Propagate ==
    /\ pc = "ready"
    /\ pc' = "propagate_signals"
    /\ ret_wire_states' = propagate_signals(relays, relay_states, fixed_wires)
    /\ UNCHANGED <<relays, relay_states, fixed_wires, wire_states, max_depth,
                   output_wires, target, new_position, ret_relay_states,
                   unstable, transitions, paths, all_stable, stable_outputs>>

\* transition_relay(relay_name, position, relays, rs, fixed_wires), with
\* relay_name = NameArg(relays, i).
TransitionRelay(rs, i, position) ==
    /\ pc = "ready"
    /\ pc' = "transition_relay"
    /\ relay_states' = rs
    /\ target' = i
    /\ new_position' = position
    /\ LET r == transition_relay(NameArg(relays, i), position, relays, rs,
                                 fixed_wires)
       IN  /\ ret_relay_states' = r.relay_states
           /\ ret_wire_states' = r.wire_states
    /\ UNCHANGED <<relays, fixed_wires, wire_states, max_depth, output_wires,
                   unstable, transitions, paths, all_stable, stable_outputs>>

\* get_unstable_relays(relays, relay_states, wire_states)
GetUnstable ==
    /\ pc = "ready"
    /\ pc' = "get_unstable_relays"
    /\ unstable' = get_unstable_relays(relays, relay_states, wire_states)
    /\ UNCHANGED <<relays, relay_states, fixed_wires, wire_states, max_depth,
                   output_wires, target, new_position, ret_relay_states,
                   ret_wire_states, transitions, paths, all_stable,
                   stable_outputs>>

\* get_relay_transitions(relay_name, relays, relay_states, wire_states), with
\* relay_name = NameArg(relays, i).
GetTransitions(i) ==
    /\ pc = "ready"
    /\ pc' = "get_relay_transitions"
    /\ target' = i
    /\ transitions' = get_relay_transitions(NameArg(relays, i), relays,
                                            relay_states, wire_states)
    /\ UNCHANGED <<relays, relay_states, fixed_wires, wire_states, max_depth,
                   output_wires, new_position, ret_relay_states,
                   ret_wire_states, unstable, paths, all_stable,
                   stable_outputs>>

\* explore_all_sequences(relays, fixed_wires, initial), max_depth and
\* visited left to their defaults.
Explore(initial) ==
    /\ pc = "ready"
    /\ pc' = "explore_all_sequences"
    /\ relay_states' = initial
    /\ paths' = explore_all_sequences(relays, fixed_wires, initial,
                                      DefaultMaxDepth, {})
    /\ UNCHANGED <<relays, fixed_wires, wire_states, max_depth, output_wires,
                   target, new_position, ret_relay_states, ret_wire_states,
                   unstable, transitions, all_stable, stable_outputs>>

\* simulate(relays, fixed_wires, max_depth=depth)
Simulate(depth) ==
    /\ pc = "ready"
    /\ pc' = "simulate"
    /\ max_depth' = depth
    /\ paths' = simulate(relays, fixed_wires, depth)
    /\ UNCHANGED <<relays, relay_states, fixed_wires, wire_states,
                   output_wires, target, new_position, ret_relay_states,
                   ret_wire_states, unstable, transitions, all_stable,
                   stable_outputs>>

\* wait_for_stable(relays, fixed_wires, outs); paths is its local of line 283.
WaitForStable(outs) ==
    /\ pc = "ready"
    /\ pc' = "wait_for_stable"
    /\ output_wires' = outs
    /\ paths' = simulate(relays, fixed_wires, DefaultMaxDepth)
    /\ LET r == wait_for_stable(relays, fixed_wires, outs)
       IN  /\ all_stable' = r.all_stable
           /\ stable_outputs' = r.stable_outputs
    /\ UNCHANGED <<relays, relay_states, fixed_wires, wire_states, max_depth,
                   target, new_position, ret_relay_states, ret_wire_states,
                   unstable, transitions>>

\* The explorer, the aggregator and the committed transition, on a circuit
\* with its rails and inputs.
Init ==
    /\ relays \in ExplorerTopologies
    /\ fixed_wires \in ExplorerInputs(relays)
    /\ relay_states = EmptyDict
    /\ wire_states = EmptyDict
    /\ max_depth = DefaultMaxDepth
    /\ output_wires = <<>>
    /\ NoResult

Next ==
    \/ \E depth \in Depths : Simulate(depth)
    \/ \E initial \in RelayStateDicts(relays) : Explore(initial)
    \/ \E outs \in OutputChoices(relays) : WaitForStable(outs)
    \/ \E rs \in RelayStateDicts(relays), i \in 1..Len(relays),
          position \in RelayPosition :
          TransitionRelay(rs, i, position)
    \/ \E rs \in RelayStateDicts(relays) : TransitionRelay(rs, 0, OFF)

Spec == Init /\ [][Next]_vars

\* The resolver, on arbitrary fixed values of the rails.
ResolverInit ==
    /\ relays \in Topologies(ResolverPool) \cup {race_condition_circuit}
                    \cup Orderings(ChainCircuit)
    /\ fixed_wires \in ResolverFixed
    /\ relay_states \in Dicts(NamesOf(relays), RelayPosition)
    /\ wire_states = EmptyDict
    /\ max_depth = DefaultMaxDepth
    /\ output_wires = <<>>
    /\ NoResult

ResolverNext == Propagate

ResolverSpec == ResolverInit /\ [][ResolverNext]_vars

\* The calls that take the caller's mappings, on mappings the caller holds
\* before the call: the resolver, and the committed transition applied to
\* the current relay_states.
FrameInit ==
    /\ relays \in Topologies(DetectorPool) \cup Orderings(ChainCircuit)
                    \cup {race_condition_circuit}
    /\ fixed_wires \in ResolverFixed
    /\ relay_states \in Dicts(NamesOf(relays), RelayPosition)
    /\ wire_states = EmptyDict
    /\ max_depth = DefaultMaxDepth
    /\ output_wires = <<>>
    /\ NoResult

FrameNext ==
    \/ Propagate
    \/ \E i \in 1..Len(relays), position \in RelayPosition :
          TransitionRelay(relay_states, i, position)

FrameSpec == FrameInit /\ [][FrameNext]_vars

\* The instability detector and the transition table.
DetectorInit ==
    /\ relays \in Topologies(DetectorPool)
    /\ fixed_wires = EmptyDict
    /\ relay_states \in Dicts(NamesOf(relays), RelayPosition)
    /\ wire_states \in DetectorWires
    /\ max_depth = DefaultMaxDepth
    /\ output_wires = <<>>
    /\ NoResult

DetectorNext ==
    \/ GetUnstable
    \/ \E i \in 0..Len(relays) : GetTransitions(i)

DetectorSpec == DetectorInit /\ [][DetectorNext]_vars

---------------------------------------------------------------------------
(* Vocabulary of the properties.                                           *)

\* The position a relay holds under a relay-state dict (absent means OFF).
PositionOf(rs, relay) == Get(rs, relay.name, OFF)

\* The relay configuration of a dict: every relay's position.
Configuration(rs) == [i \in 1..Len(relays) |-> PositionOf(rs, relays[i])]

\* The values asserted on the wires of a group by the fixed wires.
AssertedValues(group) == {fixed_wires[w] : w \in group \cap DOMAIN fixed_wires}

\* The groups the resolver computed for the call that returned.
Groups ==
    LET g == ConnectionGroups(relays, relay_states)
    IN  {g[k] : k \in 1..Len(g)}

\* The explorer has returned its paths.
Explored == pc \in {"explore_all_sequences", "simulate"}

NonFixed(group) == group \ DOMAIN fixed_wires

\* The inputs of the race test (relays.py 395, test_relays.py 163).
RaceInputs ==
    [w \in {"Trigger", "VCC", "GND"} |-> IF w = "GND" THEN LOW ELSE HIGH]

RaceCall ==
    /\ pc = "wait_for_stable"
    /\ relays = race_condition_circuit
    /\ fixed_wires = RaceInputs
    /\ output_wires = <<"Out">>

\* Relay i of the topology is unstable in a snapshot, by its own position
\* and its own coil.
UnstableIn(i, snapshot) ==
    NeedsChange(relays[i], snapshot.relay_states, snapshot.wire_states)

\* The relay-state dicts that commit a legal transition of relay i.
Commits(i, snapshot) ==
    {Updated(snapshot.relay_states, relays[i].name, position) :
        position \in RelayTransitions(relays[i], snapshot.relay_states,
                                      snapshot.wire_states)}

SamePrefix(p, q, k) == Len(q) >= k /\ \A n \in 1..k : q[n] = p[n]

\* The edges of the contact graph: comm-no of an ON relay, comm-nc of an OFF
\* relay, where the contact is set; none for a SWITCHING relay.
Edges ==
    {{relays[i].comm, relays[i].no} :
        i \in {k \in 1..Len(relays) :
                  /\ PositionOf(relay_states, relays[k]) = ON
                  /\ relays[k].no # None}}
    \cup {{relays[i].comm, relays[i].nc} :
        i \in {k \in 1..Len(relays) :
                  /\ PositionOf(relay_states, relays[k]) = OFF
                  /\ relays[k].nc # None}}

\* The wires reachable from the wires of S over the edges.
RECURSIVE Reachable(_)
Reachable(S) ==
    LET T == S \cup UNION {e \in Edges : e \cap S # {}}
    IN  IF T = S THEN S ELSE Reachable(T)

\* The connected components of the contact graph.
Components == {Reachable({w}) : w \in UNION Edges}

---------------------------------------------------------------------------
(* The properties.                                                         *)

\* C1: when a connection group of the resolver holds two or more distinct
\* asserted values, every non-fixed wire of the group is SHORT_CIRCUIT (and
\* so never FLOATING).
C1_ConflictIsShortCircuit ==
    pc = "propagate_signals" =>
        \A group \in Groups :
            Cardinality(AssertedValues(group)) >= 2 =>
                \A w \in NonFixed(group) : ret_wire_states[w] = SHORT_CIRCUIT

\* C2: in every returned path no relay goes directly from OFF to ON or from
\* ON to OFF between consecutive snapshots; every change is OFF->SWITCHING,
\* ON->SWITCHING, SWITCHING->ON or SWITCHING->OFF.
C2_BreakBeforeMake ==
    Explored =>
        \A p \in paths : \A k \in 1..(Len(p) - 1), i \in 1..Len(relays) :
            LET a == PositionOf(p[k].relay_states, relays[i])
                b == PositionOf(p[k + 1].relay_states, relays[i])
            IN  a # b => <<a, b>> \in {<<OFF, SWITCHING>>, <<ON, SWITCHING>>,
                                       <<SWITCHING, ON>>, <<SWITCHING, OFF>>}

\* A returned path on which a relay goes OFF, SWITCHING, ON.
C2_Witness ==
    /\ Explored
    /\ \E p \in paths : \E k \in 1..(Len(p) - 2), i \in 1..Len(relays) :
          /\ PositionOf(p[k].relay_states, relays[i]) = OFF
          /\ PositionOf(p[k + 1].relay_states, relays[i]) = SWITCHING
          /\ PositionOf(p[k + 2].relay_states, relays[i]) = ON

\* C3 as stated: wait_for_stable on the race topology, with both relays
\* eligible to switch ON, returns more than one distinct output tuple.
C3_RaceManyOutputs == RaceCall => Cardinality(stable_outputs) > 1

\* C3 as the code has it: every interleaving of the race topology ends with
\* both relays ON, so wait_for_stable returns all_stable = TRUE and exactly
\* one output tuple.
C3_RaceOneOutput ==
    RaceCall => all_stable /\ Cardinality(stable_outputs) = 1

\* wait_for_stable has returned for the race topology.
C3_Witness == RaceCall /\ stable_outputs # {}

\* C4: on no returned path does the same relay configuration (absent entry
\* meaning OFF) occur in two different non-terminal snapshots: the path ends
\* at the first snapshot that repeats an earlier configuration.
C4_NoRepeatedConfiguration ==
    Explored =>
        \A p \in paths : \A j, k \in 1..(Len(p) - 1) :
            j < k => Configuration(p[j].relay_states)
                        # Configuration(p[k].relay_states)

C6_UnstableIff ==
    pc = "get_unstable_relays" =>
        \A i \in 1..Len(relays) :
            LET a == IF relays[i].coil_a \in DOMAIN wire_states
                     THEN wire_states[relays[i].coil_a] ELSE "missing"
                b == IF relays[i].coil_b \in DOMAIN wire_states
                     THEN wire_states[relays[i].coil_b] ELSE "missing"
                energized == a = HIGH /\ b = LOW
                position == PositionOf(relay_states, relays[i])
            IN  relays[i].name \in unstable
                    <=> \/ position = OFF /\ energized
                        \/ position = ON /\ ~energized
                        \/ position = SWITCHING

\* C7: as the parametrized test has it, for the single relay of the test:
\* OFF with coil_a=LOW, coil_b=HIGH is unstable and ON with LOW/HIGH is
\* stable; ON with HIGH/HIGH, SHORT_CIRCUIT/LOW or FLOATING/HIGH is
\* unstable; OFF with FLOATING/SHORT_CIRCUIT is stable.
C7_EitherPolarity ==
    (/\ pc = "get_unstable_relays"
     /\ Len(relays) = 1
     /\ {relays[1].coil_a, relays[1].coil_b} \subseteq DOMAIN wire_states) =>
        LET position == PositionOf(relay_states, relays[1])
            coil == <<wire_states[relays[1].coil_a],
                      wire_states[relays[1].coil_b]>>
            reported == relays[1].name \in unstable
        IN  /\ position = OFF /\ coil = <<LOW, HIGH>> => reported
            /\ position = ON /\ coil = <<LOW, HIGH>> => ~reported
            /\ position = ON /\ coil \in {<<HIGH, HIGH>>,
                                          <<SHORT_CIRCUIT, LOW>>,
                                          <<FLOATING, HIGH>>} => reported
            /\ position = OFF /\ coil = <<FLOATING, SHORT_CIRCUIT>>
                  => ~reported

\* C8: every fixed wire has exactly its fixed value in the resolver's
\* result, also when its connection group holds a conflicting value.
C8_FixedWiresKept ==
    pc = "propagate_signals" =>
        \A w \in DOMAIN fixed_wires :
            w \in DOMAIN ret_wire_states /\ ret_wire_states[w] = fixed_wires[w]

\* The resolver has returned for a group that joins two fixed wires of
\* different values with a non-fixed wire.
C8_Witness ==
    /\ pc = "propagate_signals"
    /\ \E group \in Groups :
          Cardinality(AssertedValues(group)) >= 2 /\ NonFixed(group) # {}

\* C9: a group without asserted value leaves its non-fixed wires FLOATING;
\* a group with exactly one distinct asserted value gives it to every
\* non-fixed wire of the group.
C9_FloatingOrTheValue ==
    pc = "propagate_signals" =>
        \A group \in Groups : \A w \in NonFixed(group) :
            /\ AssertedValues(group) = {} => ret_wire_states[w] = FLOATING
            /\ \A v \in {LOW, HIGH} :
                  AssertedValues(group) = {v} => ret_wire_states[w] = v

\* The resolver has returned for a topology with a group carrying one value
\* to a non-fixed wire.
C9_Witness ==
    /\ pc = "propagate_signals"
    /\ \E group \in Groups :
          Cardinality(AssertedValues(group)) = 1 /\ NonFixed(group) # {}

\* C10: a committed transition of one relay changes only that relay's
\* position, never that of another relay of the topology, shared label or
\* not.
C10_OnlyTheNamedRelayMoves ==
    pc = "transition_relay" =>
        \A j \in 1..Len(relays) :
            j # target =>
                PositionOf(ret_relay_states, relays[j])
                    = PositionOf(relay_states, relays[j])

\* C11: wait_for_stable returns (as a normal result) all_stable = FALSE iff
\* some explored path ends in a snapshot in which a relay is unstable; a
\* path that ends on a repeated relay-state mapping is such a path.
C11_AllStableIff ==
    pc = "wait_for_stable" =>
        /\ all_stable = FALSE
              <=> \E p \in paths : \E i \in 1..Len(relays) :
                      UnstableIn(i, p[Len(p)])
        /\ \A p \in paths :
              (\E k \in 1..(Len(p) - 1) :
                  p[k].relay_states = p[Len(p)].relay_states) => ~all_stable

\* wait_for_stable has returned all_stable = FALSE for a circuit with a path
\* that came back to a relay-state mapping it had before (an oscillation).
C11_Witness ==
    /\ pc = "wait_for_stable"
    /\ ~all_stable
    /\ \E p \in paths : \E k \in 1..(Len(p) - 1) :
          p[k].relay_states = p[Len(p)].relay_states

\* C12: the outputs set of wait_for_stable is exactly the set of tuples of
\* (wire, value) pairs, one pair per requested wire in the requested order
\* and a missing wire read as FLOATING, of the last snapshots of the paths
\* that end with no relay unstable; a path that ends unstable adds nothing.
C12_OutputsOfStablePaths ==
    pc = "wait_for_stable" =>
        stable_outputs =
            {[k \in 1..Len(output_wires) |->
                <<output_wires[k],
                  IF output_wires[k] \in DOMAIN p[Len(p)].wire_states
                  THEN p[Len(p)].wire_states[output_wires[k]]
                  ELSE FLOATING>>] :
                p \in {q \in paths : \A i \in 1..Len(relays) :
                                        ~UnstableIn(i, q[Len(q)])}}

\* wait_for_stable has returned a tuple that reads a wire the circuit does
\* not have, for a circuit with a path ending stable and one ending unstable.
C12_Witness ==
    /\ pc = "wait_for_stable"
    /\ stable_outputs # {}
    /\ \E k \in 1..Len(output_wires) : output_wires[k] \notin AllWires(relays)
    /\ \E p \in paths : \E i \in 1..Len(relays) : UnstableIn(i, p[Len(p)])

\* C13: the explorer returns (it terminates without error), every returned
\* path has at most max_depth + 1 snapshots, and a branch still unstable
\* when the depth bound is exhausted is returned as a path ending there:
\* the first max_depth + 1 snapshots of every path of a search one step
\* deeper form a returned path.
C13_DepthBound ==
    Explored =>
        /\ \A p \in paths : Len(p) <= max_depth + 1
        /\ (pc = "simulate" /\ max_depth < DefaultMaxDepth) =>
              \A q \in simulate(relays, fixed_wires, max_depth + 1) :
                  \/ q \in paths
                  \/ Len(q) = max_depth + 2
                        /\ SubSeq(q, 1, max_depth + 1) \in paths

\* The explorer has returned a path of max_depth + 1 snapshots that ends
\* with a relay unstable, on a relay-state mapping not seen before on it.
C13_Witness ==
    /\ pc = "simulate"
    /\ max_depth > 0
    /\ \E p \in paths :
          /\ Len(p) = max_depth + 1
          /\ \E i \in 1..Len(relays) : UnstableIn(i, p[Len(p)])
          /\ \A k \in 1..(Len(p) - 1) :
                p[k].relay_states # p[Len(p)].relay_states

\* C14: for a relay of the topology get_relay_transitions returns exactly
\* the set of the transition table, read on that relay's own position and
\* coil (OFF: {SWITCHING} if energized else {}; ON: {SWITCHING} if not
\* energized else {}; SWITCHING: {ON} if energized else {OFF}); it is a
\* singleton when the relay is in the unstable set of the configuration
\* and empty otherwise.
C14_TransitionTable ==
    (pc = "get_relay_transitions" /\ target # 0) =>
        LET relay == relays[target]
            energized == /\ Get(wire_states, relay.coil_a, FLOATING) = HIGH
                         /\ Get(wire_states, relay.coil_b, FLOATING) = LOW
            position == PositionOf(relay_states, relay)
            table == IF position = OFF
                     THEN (IF energized THEN {SWITCHING} ELSE {})
                     ELSE IF position = ON
                     THEN (IF energized THEN {} ELSE {SWITCHING})
                     ELSE (IF energized THEN {ON} ELSE {OFF})
        IN  /\ transitions = table
            /\ Cardinality(transitions) <= 1
            /\ transitions # {}
                  <=> relay.name \in get_unstable_relays(relays, relay_states,
                                                         wire_states)

\* C15: a targeted request (transition_relay or get_relay_transitions)
\* naming a relay that the topology does not have fails with NotFound: it
\* does not return, and no changed relay-state mapping comes out of it.
C15_UnknownRelayNotFound ==
    (/\ pc \in {"transition_relay", "get_relay_transitions", "NotFound"}
     /\ NameArg(relays, target) \notin NamesOf(relays)) =>
        /\ pc = "NotFound"
        /\ ret_relay_states = EmptyDict
        /\ transitions = {}

\* C16: for fixed relays, relay-state mapping and fixed wires, the resolver
\* returns the same wire states for every ordering of the relay list.
C16_OrderIndependent ==
    pc = "propagate_signals" =>
        \A rls \in Orderings(relays) :
            propagate_signals(rls, relay_states, fixed_wires) = ret_wire_states

\* The resolver has returned for three closed contacts in a row, listed with
\* the middle one last, that carry a fixed value from one end to the other.
C16_Witness ==
    /\ pc = "propagate_signals"
    /\ Len(relays) = 3
    /\ relays[3] = ChainCircuit[2]
    /\ Cardinality(Groups) = 1
    /\ \E group \in Groups :
          Cardinality(group) = 4 /\ Cardinality(AssertedValues(group)) = 1

\* C17 as stated: on every returned path every stay of a relay in SWITCHING
\* lasts one snapshot: a non-terminal snapshot in which a relay is SWITCHING
\* is followed by one in which that relay is ON or OFF.
C17_SwitchingOneSnapshot ==
    Explored =>
        \A p \in paths : \A k \in 1..(Len(p) - 1), i \in 1..Len(relays) :
            PositionOf(p[k].relay_states, relays[i]) = SWITCHING =>
                PositionOf(p[k + 1].relay_states, relays[i]) \in {ON, OFF}

\* C17 as the code has it: a non-terminal snapshot in which a relay is
\* SWITCHING is followed by one in which that relay is ON or OFF, or in
\* which it is still SWITCHING and another relay has changed position; in
\* a topology of one relay the stay lasts exactly one snapshot.
C17_SwitchingUntilOwnStep ==
    Explored =>
        \A p \in paths : \A k \in 1..(Len(p) - 1), i \in 1..Len(relays) :
            PositionOf(p[k].relay_states, relays[i]) = SWITCHING =>
                \/ PositionOf(p[k + 1].relay_states, relays[i]) \in {ON, OFF}
                \/ /\ Len(relays) > 1
                   /\ \E j \in 1..Len(relays) :
                         /\ j # i
                         /\ PositionOf(p[k + 1].relay_states, relays[j])
                               # PositionOf(p[k].relay_states, relays[j])

\* A returned path on which a relay stays SWITCHING over two snapshots
\* while another relay moves, and then goes ON.
C17_Witness ==
    /\ Explored
    /\ \E p \in paths : \E k \in 1..(Len(p) - 2), i \in 1..Len(relays) :
          /\ PositionOf(p[k].relay_states, relays[i]) = SWITCHING
          /\ PositionOf(p[k + 1].relay_states, relays[i]) = SWITCHING
          /\ PositionOf(p[k + 2].relay_states, relays[i]) = ON

\* C18: between consecutive snapshots of a returned path exactly one relay
\* of the topology changes position; and transition_relay, asked for a
\* relay of the topology, returns a mapping in which that relay holds the
\* requested position and every other relay the position it had.
C18_ExactlyOneRelayMoves ==
    /\ Explored =>
          \A p \in paths : \A k \in 1..(Len(p) - 1) :
              Cardinality({i \in 1..Len(relays) :
                  PositionOf(p[k + 1].relay_states, relays[i])
                      # PositionOf(p[k].relay_states, relays[i])}) = 1
    /\ (pc = "transition_relay" /\ target # 0) =>
          \A j \in 1..Len(relays) :
              PositionOf(ret_relay_states, relays[j])
                  = IF j = target THEN new_position
                    ELSE PositionOf(relay_states, relays[j])

\* C19: the last snapshot of every returned path has no unstable relay, or
\* its relay configuration occurred earlier on the same path, or the path
\* has used up the depth bound; what other paths visited cuts nothing off.
C19_CutOnlyOnOwnPath ==
    Explored =>
        \A p \in paths :
            \/ \A i \in 1..Len(relays) : ~UnstableIn(i, p[Len(p)])
            \/ \E k \in 1..(Len(p) - 1) :
                  Configuration(p[k].relay_states)
                      = Configuration(p[Len(p)].relay_states)
            \/ Len(p) = max_depth + 1

\* Two returned paths reach the same relay-state mapping along different
\* ways and both go on from it.
C19_Witness ==
    /\ Explored
    /\ \E p, q \in paths :
          \E j \in 2..(Len(p) - 1), k \in 2..(Len(q) - 1) :
              /\ p[j].relay_states = q[k].relay_states
              /\ SubSeq(p, 1, j) # SubSeq(q, 1, k)

\* C20: when no relay is unstable in the initial configuration (none is
\* SWITCHING, the OFF ones have their coil not energized, the ON ones
\* energized), the explorer returns exactly one path of exactly one
\* snapshot, the initial relay states with the wires the resolver gives
\* them.
C20_StableStart ==
    LET ws == propagate_signals(relays, relay_states, fixed_wires)
        energized(relay) == /\ Get(ws, relay.coil_a, FLOATING) = HIGH
                            /\ Get(ws, relay.coil_b, FLOATING) = LOW
        settled(relay) ==
            \/ PositionOf(relay_states, relay) = OFF /\ ~energized(relay)
            \/ PositionOf(relay_states, relay) = ON /\ energized(relay)
    IN  (Explored /\ \A i \in 1..Len(relays) : settled(relays[i])) =>
            paths = {<<Snapshot(relay_states, ws)>>}

\* The explorer has returned for a start with a relay ON, held by its
\* energized coil, and a depth bound that allows steps.
C20_Witness ==
    /\ pc = "explore_all_sequences"
    /\ \E i \in 1..Len(relays) : PositionOf(relay_states, relays[i]) = ON
    /\ Cardinality(paths) = 1
    /\ \A p \in paths : Len(p) = 1 /\ \A i \in 1..Len(relays) :
                                          ~UnstableIn(i, p[1])

\* C21: the groups the resolver ends up with are exactly the connected
\* components of the contact graph (comm-no per ON relay, comm-nc per OFF
\* relay, nothing per SWITCHING relay); no wire is in two groups of the
\* list; and the comm wire of a SWITCHING relay that no group holds and
\* that is not fixed comes out FLOATING.
C21_GroupsAreComponents ==
    pc = "propagate_signals" =>
        LET g == ConnectionGroups(relays, relay_states)
        IN  /\ Groups = Components
            /\ \A j, k \in 1..Len(g) : j # k => g[j] \cap g[k] = {}
            /\ \A i \in 1..Len(relays) :
                  (/\ PositionOf(relay_states, relays[i]) = SWITCHING
                   /\ relays[i].comm \notin UNION Components
                   /\ relays[i].comm \notin DOMAIN fixed_wires) =>
                      ret_wire_states[relays[i].comm] = FLOATING

\* The resolver has returned for a SWITCHING relay whose comm wire is left
\* alone, beside a group that two other contacts form together.
C21_Witness ==
    /\ pc = "propagate_signals"
    /\ \E i \in 1..Len(relays) :
          /\ PositionOf(relay_states, relays[i]) = SWITCHING
          /\ relays[i].comm \notin UNION Groups
          /\ relays[i].comm \notin DOMAIN fixed_wires
    /\ \E group \in Groups : Cardinality(group) = 3

\* C22: in every snapshot of every returned path the wire states are those
\* the resolver gives for the snapshot's relay states and the fixed wires,
\* and every path starts with the initial relay states.
C22_SnapshotsResolved ==
    Explored =>
        /\ \A snapshot \in UNION {{p[k] : k \in 1..Len(p)} : p \in paths} :
              snapshot.wire_states
                  = propagate_signals(relays, snapshot.relay_states,
                                      fixed_wires)
        /\ \A p \in paths : p[1].relay_states = relay_states

\* The explorer has returned, from a given non-empty relay-state mapping, a
\* path along which the resolved wires change.
C22_Witness ==
    /\ pc = "explore_all_sequences"
    /\ relay_states # EmptyDict
    /\ \E p \in paths : \E k \in 2..Len(p) :
          /\ p[k].wire_states # p[1].wire_states
          /\ p[1].relay_states = relay_states

\* C23: every wire named by a terminal (coil_a, coil_b, comm, no, nc) of a
\* relay of the topology has an entry in the resolver's result, and a wire
\* that is in no connection group and not fixed is FLOATING.
C23_TotalOverTopology ==
    pc = "propagate_signals" =>
        \A i \in 1..Len(relays) :
            \A w \in {relays[i].coil_a, relays[i].coil_b, relays[i].comm,
                       relays[i].no, relays[i].nc} \ {None} :
                /\ w \in DOMAIN ret_wire_states
                /\ (w \notin UNION Groups /\ w \notin DOMAIN fixed_wires) =>
                      ret_wire_states[w] = FLOATING

\* The resolver has returned with no wire fixed and every contact open, so
\* that the result consists of defaulted entries only.
C23_Witness ==
    /\ pc = "propagate_signals"
    /\ fixed_wires = EmptyDict
    /\ Groups = {}
    /\ Len(relays) > 1
    /\ \A w \in DOMAIN ret_wire_states : ret_wire_states[w] = FLOATING

C25_SomePathAlways ==
    /\ (Explored \/ pc = "wait_for_stable") => paths # {}
    /\ pc = "wait_for_stable" => ~(all_stable /\ stable_outputs = {})

===========================================================================
